---- MODULE Spec2Model ----
(***************************************************************************)
(* A model of openai-grammar-checker.js, a spreadsheet add-on: the per-user *)
(* settings store (API key, custom dictionary), the typo-fix and            *)
(* grammar-improve actions with their dialogs, and the cell write-back.     *)
(*                                                                          *)
(* Strings are sequences of one-character strings, so that trim, includes,  *)
(* lower-casing, lengths and global replacement are computed as the code    *)
(* computes them.                                                           *)
(***************************************************************************)
EXTENDS Integers, Sequences, FiniteSets, TLC

VARIABLES
    store,      \* user property CUSTOM_DICTIONARY: [present, value (JSON text)]
    pc,         \* per caller: position inside a dictionary call
    call,       \* per caller: the running (or last) dictionary call's locals
    ret,        \* per caller: the value the last dictionary call returned
    apiKey,     \* user property OPENAI_API_KEY: [present, value]
    cells,      \* the spreadsheet: <<sheet id, A1 address>> -> cell text
    cache,      \* user cache: ACTIVE_RANGE_A1 and ACTIVE_SHEET_ID
    dialog,     \* the modal dialog on screen and its client-side script state
    tabs,       \* per browser tab of the user: its dialog and its server calls
    last        \* what the last handler run did that the user can observe

vars == <<store, pc, call, ret, apiKey, cells, cache, dialog, tabs, last>>

dictVars == <<store, pc, call, ret>>
flowVars == <<apiKey, cells, cache, dialog, tabs, last>>

-----------------------------------------------------------------------------
(* Bounds of the model.                                                     *)

\* the dictionary is not grown beyond this many entries
MaxDict == 2
\* the typo dialog's working copy is not grown beyond this many characters
MaxTextLen == 10
\* dialogs the two browser tabs open
MaxOpened == 2

-----------------------------------------------------------------------------
(* Strings.                                                                 *)

SP == " "
QUOTE == "\""
COMMA == ","
LBRACKET == "["
RBRACKET == "]"

the == <<"t", "h", "e">>
The == <<"T", "h", "e">>
teh == <<"t", "e", "h">>
ten == <<"t", "e", "n">>
at == <<"a", "t">>
theatre == <<"t", "h", "e", "a", "t", "r", "e">>

\* String.prototype.trim over the model's only whitespace character
RECURSIVE TrimLeft(_)
TrimLeft(s) ==
    IF s = <<>> THEN <<>>
    ELSE IF Head(s) = SP THEN TrimLeft(Tail(s)) ELSE s

RECURSIVE TrimRight(_)
TrimRight(s) ==
    IF s = <<>> THEN <<>>
    ELSE IF s[Len(s)] = SP THEN TrimRight(SubSeq(s, 1, Len(s) - 1)) ELSE s

Trim(s) == TrimRight(TrimLeft(s))

\* Array.prototype.includes on an array of strings: strict equality
Includes(arr, x) == \E i \in 1..Len(arr) : arr[i] = x

\* String.prototype.toLowerCase, one character
LowerChar(c) ==
    IF c = "T" THEN "t" ELSE IF c = "A" THEN "a" ELSE c

ToLowerCase(s) == [i \in 1..Len(s) |-> LowerChar(s[i])]

-----------------------------------------------------------------------------
(* The dictionary's stored form: JSON text of an array of strings.          *)
(* The model's words hold no quote and no backslash, so no escapes occur.  *)

RECURSIVE JoinQuoted(_)
JoinQuoted(arr) ==
    IF arr = <<>> THEN <<>>
    ELSE <<QUOTE>> \o Head(arr) \o <<QUOTE>>
         \o (IF Len(arr) > 1 THEN <<COMMA>> ELSE <<>>)
         \o JoinQuoted(Tail(arr))

\* JSON.stringify(dict)
Stringify(arr) == <<LBRACKET>> \o JoinQuoted(arr) \o <<RBRACKET>>

\* JSON.parse of the text of an array of strings, read character by
\* character: acc holds the finished elements, cur the characters of the
\* string being read, inStr whether the reader is between two quotes.
RECURSIVE ParseItems(_, _, _, _)
ParseItems(s, acc, cur, inStr) ==
    IF s = <<>> THEN acc
    ELSE LET c == Head(s)
             r == Tail(s)
         IN  IF inStr
             THEN IF c = QUOTE THEN ParseItems(r, Append(acc, cur), <<>>, FALSE)
                  ELSE ParseItems(r, acc, Append(cur, c), TRUE)
             ELSE IF c = QUOTE THEN ParseItems(r, acc, <<>>, TRUE)
                  ELSE ParseItems(r, acc, cur, FALSE)

ParseArray(s) == ParseItems(s, <<>>, <<>>, FALSE)

Absent == [present |-> FALSE, value |-> <<>>]
Stored(v) == [present |-> TRUE, value |-> v]

\* a property value used as a condition: null and "" are falsy
Truthy(p) == p.present /\ p.value # <<>>

\* getCustomDictionary(): the parsed property, [] when it is not set
getCustomDictionary(prop) ==
    IF Truthy(prop) THEN ParseArray(prop.value) ELSE <<>>

-----------------------------------------------------------------------------
(* The custom dictionary's server functions, each called through           *)
(* google.script.run: two calls may run at once, and each reads the         *)
(* property and writes it back in two separate steps.                       *)

Callers == {1, 2}

\* the words a caller may hand to addToCustomDictionary
DictInputs == {<<>>, <<SP>>, the, <<SP>> \o the \o <<SP>>, The}

\* the indexes a caller may hand to removeFromCustomDictionary
IndexInputs == -1..MaxDict

NoCall == [op |-> "none", arg |-> <<>>, word |-> <<>>, index |-> 0, dict |-> <<>>]

\* lines 578-582: dict after "if (!dict.includes(word)) dict.push(word)"
pushAlways(dict, word) == Append(dict, word)
pushFront(dict, word) ==
    IF ~Includes(dict, word) THEN <<word>> \o dict ELSE dict
pushIfNew(dict, word) ==
    IF ~Includes(dict, word) THEN Append(dict, word) ELSE dict

\* lines 590-594: dict after "if (index >= 0 && index < dict.length)
\* dict.splice(index, 1)"; index counts from 0
spliceNext(dict, index) ==
    IF index >= 0 /\ index < Len(dict)
    THEN SubSeq(dict, 1, index + 1) \o SubSeq(dict, index + 3, Len(dict))
    ELSE dict
spliceAt(dict, index) ==
    IF index >= 0 /\ index < Len(dict)
    THEN SubSeq(dict, 1, index) \o SubSeq(dict, index + 2, Len(dict))
    ELSE dict

\* setProperty('CUSTOM_DICTIONARY', JSON.stringify(dict)), done only when
\* the call changed its copy of the list
persist(prop, old, new) == IF new # old THEN Stored(Stringify(new)) ELSE prop

\* addToCustomDictionary, lines 574-577: trim, return the stored list for a
\* blank word, else read the stored list
AddBegin(p, w) ==
    /\ pc[p] \in {"idle", "done"}
    /\ Len(getCustomDictionary(store)) < MaxDict
    /\ LET word == Trim(w)
           dict == getCustomDictionary(store)
       IN  /\ call' = [call EXCEPT ![p] =
                 [op |-> "add", arg |-> w, word |-> word, index |-> 0, dict |-> dict]]
           /\ IF word = <<>>
              THEN /\ ret' = [ret EXCEPT ![p] = dict]
                   /\ pc' = [pc EXCEPT ![p] = "done"]
              ELSE /\ ret' = ret
                   /\ pc' = [pc EXCEPT ![p] = "addRead"]
    /\ UNCHANGED <<store, flowVars>>

\* addToCustomDictionary, lines 578-582: push unless included, persist, return
AddEnd(p) ==
    /\ pc[p] = "addRead"
    /\ LET dict == pushIfNew(call[p].dict, call[p].word)
       IN  /\ store' = persist(store, call[p].dict, dict)
           /\ ret' = [ret EXCEPT ![p] = dict]
    /\ pc' = [pc EXCEPT ![p] = "done"]
    /\ UNCHANGED <<call, flowVars>>

\* removeFromCustomDictionary, line 589: read the stored list
RemoveBegin(p, i) ==
    /\ pc[p] \in {"idle", "done"}
    /\ call' = [call EXCEPT ![p] =
          [op |-> "remove", arg |-> <<>>, word |-> <<>>, index |-> i,
           dict |-> getCustomDictionary(store)]]
    /\ pc' = [pc EXCEPT ![p] = "removeRead"]
    /\ UNCHANGED <<store, ret, flowVars>>

\* removeFromCustomDictionary, lines 590-594: splice when in range, persist,
\* return
RemoveEnd(p) ==
    /\ pc[p] = "removeRead"
    /\ LET dict == spliceAt(call[p].dict, call[p].index)
       IN  /\ store' = persist(store, call[p].dict, dict)
           /\ ret' = [ret EXCEPT ![p] = dict]
    /\ pc' = [pc EXCEPT ![p] = "done"]
    /\ UNCHANGED <<call, flowVars>>

DictNext ==
    \/ \E p \in Callers, w \in DictInputs : AddBegin(p, w)
    \/ \E p \in Callers : AddEnd(p)
    \/ \E p \in Callers, i \in IndexInputs : RemoveBegin(p, i)
    \/ \E p \in Callers : RemoveEnd(p)

-----------------------------------------------------------------------------
(* The spreadsheet, the cache and what the user sees.                       *)

Sheets == {0, 1}
A1 == <<"A", "1">>
B2 == <<"B", "2">>
Addrs == {A1, B2}
Targets == Sheets \X Addrs

text1 == teh \o <<SP, "a", SP>> \o teh

\* the cells' values when the add-on is first used
InitCells == [t \in Targets |-> IF t = <<0, A1>> THEN text1 ELSE <<>>]

\* SpreadsheetApp.getActiveRange(): no range, or one cell
NoRange == [has |-> FALSE, sheet |-> 0, a1 |-> <<>>]
Ranges == {NoRange} \cup {[has |-> TRUE, sheet |-> t[1], a1 |-> t[2]] : t \in Targets}

\* getSheetId().toString()
SheetIdString(id) == IF id = 0 THEN <<"0">> ELSE <<"1">>

\* an entry of the user cache; get() of a missing key is null
NoEntry == [present |-> FALSE, value |-> <<>>]
Entry(v) == [present |-> TRUE, value |-> v]
EmptyCache == [a1 |-> NoEntry, sheet |-> NoEntry]

\* ui.alert(...)
Alert(m) == [prefix |-> "", msg |-> m, code |-> 0, body |-> ""]
\* Error objects: new Error(`API Error ${responseCode}: ${responseBody}`)
ApiError(code, body) == [msg |-> "API Error", code |-> code, body |-> body]
PlainError(m) == [msg |-> m, code |-> 0, body |-> ""]
\* the catch block's alert('Error: ' + error.message)
ErrorAlert(e) == [prefix |-> "Error: ", msg |-> e.msg, code |-> e.code, body |-> e.body]

NoDialog ==
    [kind |-> "none", originalText |-> <<>>, correctedText |-> <<>>,
     typos |-> <<>>, items |-> <<>>, improvedText |-> <<>>, range |-> NoRange]

\* what a handler run did that the user can observe: the alerts shown, the
\* HTTP requests sent, whether the key prompt was shown, the setValue calls
NoRun ==
    [action |-> "none", alerts |-> <<>>, http |-> 0, prompt |-> FALSE,
     writes |-> <<>>, status |-> 0, body |-> "", reply |-> <<>>, range |-> NoRange]

-----------------------------------------------------------------------------
(* callOpenAI and the replies of the chat-completion endpoint.              *)

\* A typo-detection reply is a sequence of tokens: "FO" is the fence
\* ```json, "FC" the fence ```, "LB" and "RB" the braces, "WS" white space,
\* "TXT" prose without braces or backticks, "NULL" the JSON text null, and a
\* token of TyposTokens the JSON text "typos": <value>.
TyposTokens == {"T_empty", "T_one", "T_dup", "T_norepl", "T_missing", "T_two", "T_str"}

Typo(w, r) == [word |-> w, hasReplacements |-> TRUE, replacements |-> r]
TypoNoField(w) == [word |-> w, hasReplacements |-> FALSE, replacements |-> <<>>]

\* the JSON value a typos token stands for
TyposValue(tok) ==
    CASE tok = "T_empty"   -> [isArray |-> TRUE, items |-> <<>>]
      [] tok = "T_one"     -> [isArray |-> TRUE, items |-> <<Typo(teh, <<the, ten>>)>>]
      [] tok = "T_dup"     -> [isArray |-> TRUE, items |-> <<Typo(teh, <<the, the>>)>>]
      [] tok = "T_norepl"  -> [isArray |-> TRUE, items |-> <<Typo(teh, <<>>)>>]
      [] tok = "T_missing" -> [isArray |-> TRUE, items |-> <<TypoNoField(teh)>>]
      [] tok = "T_two"     ->
            [isArray |-> TRUE, items |-> <<Typo(teh, <<the>>), Typo(<<"a">>, <<at>>)>>]
      [] tok = "T_str"     -> [isArray |-> FALSE, items |-> <<>>]

Obj(tok) == <<"LB", tok, "RB">>

\* the replies the endpoint may give to a typo-detection request
TypoReplies ==
    { <<>>,
      <<"TXT">>,
      <<"NULL">>,
      <<"LB", "RB">>,
      <<"FO", "WS">> \o Obj("T_one") \o <<"WS", "FC">>,
      <<"TXT", "FO", "TXT", "FC">>,
      <<"FO", "FO">> \o Obj("T_one") \o <<"FC">>,
      <<"FO">> \o Obj("T_one"),
      <<"TXT">> \o Obj("T_one") \o <<"TXT">>,
      Obj("T_one") \o <<"TXT", "LB", "RB">>,
      <<"LB", "WS", "T_two", "WS", "RB">>
    } \cup {Obj(tok) : tok \in TyposTokens}

\* the replies the endpoint may give to a grammar request
GrammarReplies == {<<>>, <<SP>>, <<SP>> \o the \o <<SP>>, the \o <<SP>> \o at}

\* UrlFetchApp.fetch(...): status, body of a failure, content of a success
Response(status, body, content) == [status |-> status, body |-> body, content |-> content]
Failures == {Response(401, "unauthorized", <<>>), Response(500, "server error", <<>>)}
TypoResponses == Failures \cup {Response(200, "", r) : r \in TypoReplies}
GrammarResponses == Failures \cup {Response(200, "", r) : r \in GrammarReplies}

\* callOpenAI: throws for a status other than 200, else returns the content
callOpenAINoCheck(resp) ==
    [threw |-> FALSE, error |-> PlainError(""), content |-> resp.content]
callOpenAI(resp) ==
    IF resp.status # 200
    THEN [threw |-> TRUE, error |-> ApiError(resp.status, resp.body), content |-> <<>>]
    ELSE [threw |-> FALSE, error |-> PlainError(""), content |-> resp.content]

-----------------------------------------------------------------------------
(* findTypos: extraction of the JSON text and JSON.parse.                   *)

Indexes(r, S) == {i \in 1..Len(r) : r[i] \in S}
Min(S) == CHOOSE x \in S : \A y \in S : x <= y
Max(S) == CHOOSE x \in S : \A y \in S : x >= y

RemoveTokens(r, S) == SelectSeq(r, LAMBDA tok : tok \notin S)

RECURSIVE TrimWsLeft(_)
TrimWsLeft(r) ==
    IF r = <<>> THEN <<>> ELSE IF Head(r) = "WS" THEN TrimWsLeft(Tail(r)) ELSE r
RECURSIVE TrimWsRight(_)
TrimWsRight(r) ==
    IF r = <<>> THEN <<>>
    ELSE IF r[Len(r)] = "WS" THEN TrimWsRight(SubSeq(r, 1, Len(r) - 1)) ELSE r
TrimWs(r) == TrimWsRight(TrimWsLeft(r))

\* response.match(/```json\s*([\s\S]*?)\s*```/): from the first ```json to
\* the first ``` after it, and the text ```json begins with ```
FenceMatch(r) ==
    LET opens == Indexes(r, {"FO"})
    IN  IF opens = {} THEN [found |-> FALSE, text |-> <<>>]
        ELSE LET i == Min(opens)
                 closes == {j \in Indexes(r, {"FO", "FC"}) : j > i}
             IN  IF closes = {} THEN [found |-> FALSE, text |-> <<>>]
                 ELSE [found |-> TRUE, text |-> SubSeq(r, i, Min(closes))]

\* response.match(/{[\s\S]*}/): from the first { to the last }
BraceMatch(r) ==
    LET opens == Indexes(r, {"LB"})
    IN  IF opens = {} THEN [found |-> FALSE, text |-> <<>>]
        ELSE LET i == Min(opens)
                 closes == {j \in Indexes(r, {"RB"}) : j > i}
             IN  IF closes = {} THEN [found |-> FALSE, text |-> <<>>]
                 ELSE [found |-> TRUE, text |-> SubSeq(r, i, Max(closes))]

\* lines 146-153: the text handed to JSON.parse
ExtractJson(r) ==
    LET fence == FenceMatch(r)
        brace == BraceMatch(r)
        jsonMatch == IF fence.found THEN fence ELSE brace
    IN  IF jsonMatch.found
        THEN TrimWs(RemoveTokens(jsonMatch.text, {"FO", "FC"}))
        ELSE r

\* JSON.parse: white space between tokens is skipped; the texts that parse
\* are null, {} and {"typos": <value>}
JsonParse(r) ==
    LET t == RemoveTokens(r, {"WS"})
        fail == [ok |-> FALSE, isNull |-> FALSE, hasTypos |-> FALSE,
                 typos |-> [isArray |-> FALSE, items |-> <<>>]]
    IN  IF t = <<"NULL">> THEN [fail EXCEPT !.ok = TRUE, !.isNull = TRUE]
        ELSE IF t = <<"LB", "RB">> THEN [fail EXCEPT !.ok = TRUE]
        ELSE IF Len(t) = 3 /\ t[1] = "LB" /\ t[3] = "RB" /\ t[2] \in TyposTokens
        THEN [fail EXCEPT !.ok = TRUE, !.hasTypos = TRUE, !.typos = TyposValue(t[2])]
        ELSE fail

\* line 160: !result || !result.typos || result.typos.length === 0
NoTypos(result) ==
    \/ result.isNull
    \/ ~result.hasTypos
    \/ (result.typos.isArray /\ Len(result.typos.items) = 0)

-----------------------------------------------------------------------------
(* showTypoSuggestions: the replacement buttons of each typo.               *)

\* word[0] of a string, undefined for the empty string
FirstChar(s) == IF s = <<>> THEN "undefined" ELSE s[1]

Abs(n) == IF n < 0 THEN -n ELSE n

\* similarWords: same first character after lower-casing and a length
\* difference of at most 2
similarWords(word1, word2) ==
    LET w1 == ToLowerCase(word1)
        w2 == ToLowerCase(word2)
    IN  FirstChar(w1) = FirstChar(w2) /\ Abs(Len(w1) - Len(w2)) <= 2

\* lines 192-196: customDict.forEach(dictWord => push when similar and not
\* yet included)
RECURSIVE AddSimilar(_, _, _)
AddSimilar(allReplacements, word, customDict) ==
    IF customDict = <<>> THEN allReplacements
    ELSE LET dictWord == Head(customDict)
             next == IF similarWords(word, dictWord)
                        /\ ~Includes(allReplacements, dictWord)
                     THEN Append(allReplacements, dictWord)
                     ELSE allReplacements
         IN  AddSimilar(next, word, Tail(customDict))

\* lines 189-213: typos.map(...) throws a TypeError when typos is no array,
\* and [...typo.replacements] when an entry has no replacements
TemplateThrows(typos) ==
    \/ ~typos.isArray
    \/ \E i \in 1..Len(typos.items) : ~typos.items[i].hasReplacements

\* lines 189-213: one block per typo, with one button per replacement
TypoBlocks(items, customDict) ==
    [i \in 1..Len(items) |->
        [word |-> items[i].word,
         options |-> AddSimilar(items[i].replacements, items[i].word, customDict),
         shown |-> TRUE]]

-----------------------------------------------------------------------------
(* The write-back to the cell the cache names.                              *)

\* getSheetById: the sheet whose getSheetId().toString() equals id, or null
getSheetById(id) ==
    LET found == {sh \in Sheets : SheetIdString(sh) = id}
    IN  IF found = {} THEN [present |-> FALSE, value |-> 0]
        ELSE [present |-> TRUE, value |-> CHOOSE sh \in found : TRUE]

\* the setValue call of updateCellWithCorrectedText and
\* updateCellWithImprovedGrammar: none when a cache entry is missing or
\* empty or the sheet is not found
WriteBack(ch, text) ==
    IF ~Truthy(ch.a1) \/ ~Truthy(ch.sheet) THEN <<>>
    ELSE LET sheet == getSheetById(ch.sheet.value)
         IN  IF sheet.present
             THEN <<[sheet |-> sheet.value, a1 |-> ch.a1.value, text |-> text]>>
             ELSE <<>>

updateCellWithCorrectedText(ch, correctedText) == WriteBack(ch, correctedText)

updateCellWithImprovedGrammar(ch, improvedText) == WriteBack(ch, improvedText)

\* range.setValue for each call of a handler run
RECURSIVE Apply(_, _)
Apply(cs, writes) ==
    IF writes = <<>> THEN cs
    ELSE LET w == Head(writes)
         IN  Apply([cs EXCEPT ![<<w.sheet, w.a1>>] = w.text], Tail(writes))

-----------------------------------------------------------------------------
(* The settings store, one call at a time.                                  *)

addToCustomDictionary(prop, w) ==
    LET word == Trim(w)
        dict == getCustomDictionary(prop)
    IN  IF word = <<>> THEN prop ELSE persist(prop, dict, pushIfNew(dict, word))

removeFromCustomDictionary(prop, index) ==
    LET dict == getCustomDictionary(prop)
    IN  persist(prop, dict, spliceAt(dict, index))

\* the words the user may type into a word field
WordInputs == {<<SP>>, the, <<SP>> \o the, The, theatre}

\* the texts the user may type into the key prompt
KeyInputs == {<<>>, <<SP>>, <<"k">>, <<SP, "k", SP>>}

\* ui.prompt(...): Cancel, or OK with a text
PromptResults ==
    {[ok |-> FALSE, text |-> <<>>]} \cup {[ok |-> TRUE, text |-> k] : k \in KeyInputs}

\* showApiKeyDialog, lines 39-43: on OK the trimmed text is saved
KeyAfterPrompt(key, prm) == IF prm.ok THEN Stored(Trim(prm.text)) ELSE key
AlertsAfterPrompt(prm) ==
    IF prm.ok THEN <<Alert("API key saved successfully!")>> ELSE <<>>

-----------------------------------------------------------------------------
(* The menu actions.                                                        *)

Out(alerts, http, prompt, show) ==
    [alerts |-> alerts, http |-> http, prompt |-> prompt, show |-> show]

\* lines 117 and 328: if (!apiKey)
NoKeyWhenAbsent(key) == ~key.present
NoKey(key) == ~Truthy(key)

\* findTypos up to the call of showTypoSuggestions, and what that call's
\* template does: the alerts, the requests, whether the key prompt and
\* whether the dialog is shown
findTypos(key, resp) ==
    IF NoKey(key)
    THEN Out(<<Alert("Please set your OpenAI API key first.")>>, 0, TRUE, FALSE)
    ELSE LET r == callOpenAI(resp)
         IN  IF r.threw THEN Out(<<ErrorAlert(r.error)>>, 1, FALSE, FALSE)
             ELSE IF r.content = <<>>
             THEN Out(<<ErrorAlert(PlainError("Failed to get response from OpenAI"))>>,
                      1, FALSE, FALSE)
             ELSE LET result == JsonParse(ExtractJson(r.content))
                  IN  IF ~result.ok
                      THEN Out(<<ErrorAlert(PlainError("Failed to parse OpenAI response"))>>,
                               1, FALSE, FALSE)
                      ELSE IF NoTypos(result)
                      THEN Out(<<Alert("No typos found in the selected text.")>>,
                               1, FALSE, FALSE)
                      ELSE IF TemplateThrows(result.typos)
                      THEN Out(<<ErrorAlert(PlainError("TypeError"))>>, 1, FALSE, FALSE)
                      ELSE Out(<<>>, 1, FALSE, TRUE)

\* line 351: const improvedText = response.trim()
improvedTextRaw(response) == response
improvedTextOf(response) == Trim(response)

\* improveGrammar up to the call of showGrammarComparison
improveGrammar(key, resp) ==
    IF NoKey(key)
    THEN Out(<<Alert("Please set your OpenAI API key first.")>>, 0, TRUE, FALSE)
    ELSE LET r == callOpenAI(resp)
         IN  IF r.threw THEN Out(<<ErrorAlert(r.error)>>, 1, FALSE, FALSE)
             ELSE IF r.content = <<>>
             THEN Out(<<ErrorAlert(PlainError("Failed to get response from OpenAI"))>>,
                      1, FALSE, FALSE)
             ELSE Out(<<>>, 1, FALSE, TRUE)

\* lines 93-104 and 305-316: the checks of the selection
Selected(range, out) ==
    IF ~range.has THEN Out(<<Alert("Please select a range first.")>>, 0, FALSE, FALSE)
    ELSE IF cells[<<range.sheet, range.a1>>] = <<>>
    THEN Out(<<Alert("Selected cell is empty.")>>, 0, FALSE, FALSE)
    ELSE out

\* the run of a menu action, as the user observes it
Run(name, range, out, prm, resp) ==
    [action |-> name, range |-> range,
     alerts |-> out.alerts \o (IF out.prompt THEN AlertsAfterPrompt(prm) ELSE <<>>),
     http |-> out.http, prompt |-> out.prompt, writes |-> <<>>,
     status |-> IF out.http > 0 THEN resp.status ELSE 0,
     body |-> IF out.http > 0 THEN resp.body ELSE "",
     reply |-> IF out.http > 0 THEN resp.content ELSE <<>>]

\* lines 256-257 and 414-415: the two cache puts after showModalDialog
CachePut(range) == [a1 |-> Entry(range.a1), sheet |-> Entry(SheetIdString(range.sheet))]

\* the user's answer to the key prompt where the run shows it, and the
\* endpoint's response where the run sends the request
NoPrompt == [ok |-> FALSE, text |-> <<>>]
NoResponse == Response(0, "", <<>>)
Ready(range) == range.has /\ cells[<<range.sheet, range.a1>>] # <<>>
PromptsOf(range) == IF Ready(range) /\ NoKey(apiKey) THEN PromptResults ELSE {NoPrompt}
ResponsesOf(range, all) == IF Ready(range) /\ ~NoKey(apiKey) THEN all ELSE {NoResponse}

\* menu item 'Configure API Key'
showApiKeyDialog(prm) ==
    /\ dialog.kind = "none"
    /\ apiKey' = KeyAfterPrompt(apiKey, prm)
    /\ last' = Run("showApiKeyDialog", NoRange, Out(<<>>, 0, TRUE, FALSE), prm, NoResponse)
    /\ UNCHANGED <<dictVars, tabs, cells, cache, dialog>>

\* menu item 'Fix Typos': showTypoFixDialog, findTypos, showTypoSuggestions
showTypoFixDialog(range) ==
    /\ dialog.kind = "none"
    /\ \E resp \in ResponsesOf(range, TypoResponses), prm \in PromptsOf(range) :
        LET out == Selected(range, findTypos(apiKey, resp))
            text == cells[<<range.sheet, range.a1>>]
            customDict == getCustomDictionary(store)
            items == JsonParse(ExtractJson(resp.content)).typos.items
        IN  /\ apiKey' = IF out.prompt THEN KeyAfterPrompt(apiKey, prm) ELSE apiKey
            /\ dialog' = IF out.show
                         THEN [kind |-> "typo", originalText |-> text,
                               correctedText |-> text,
                               typos |-> TypoBlocks(items, customDict),
                               items |-> items, improvedText |-> <<>>, range |-> range]
                         ELSE dialog
            /\ cache' = IF out.show THEN CachePut(range) ELSE cache
            /\ last' = Run("showTypoFixDialog", range, out, prm, resp)
    /\ UNCHANGED <<dictVars, tabs, cells>>

\* menu item 'Improve Grammar': showGrammarImproveDialog, improveGrammar,
\* showGrammarComparison
showGrammarImproveDialog(range) ==
    /\ dialog.kind = "none"
    /\ \E resp \in ResponsesOf(range, GrammarResponses), prm \in PromptsOf(range) :
        LET out == Selected(range, improveGrammar(apiKey, resp))
            text == cells[<<range.sheet, range.a1>>]
        IN  /\ apiKey' = IF out.prompt THEN KeyAfterPrompt(apiKey, prm) ELSE apiKey
            /\ dialog' = IF out.show
                         THEN [kind |-> "grammar", originalText |-> text,
                               correctedText |-> <<>>, typos |-> <<>>, items |-> <<>>,
                               improvedText |-> improvedTextOf(resp.content),
                               range |-> range]
                         ELSE dialog
            /\ cache' = IF out.show THEN CachePut(range) ELSE cache
            /\ last' = Run("showGrammarImproveDialog", range, out, prm, resp)
    /\ UNCHANGED <<dictVars, tabs, cells>>

\* menu item 'Manage Custom Dictionary'
showDictionaryManager ==
    /\ dialog.kind = "none"
    /\ dialog' = [NoDialog EXCEPT !.kind = "dictionary"]
    /\ last' = [NoRun EXCEPT !.action = "showDictionaryManager"]
    /\ UNCHANGED <<dictVars, tabs, apiKey, cells, cache>>

-----------------------------------------------------------------------------
(* The dialogs' client scripts and the server functions they call.          *)

\* correctedText.replace(new RegExp(original, 'g'), replacement) for a
\* pattern of plain letters: every occurrence, left to right
RECURSIVE ReplaceFirst(_, _, _)
ReplaceFirst(text, original, replacement) ==
    IF Len(text) < Len(original) THEN text
    ELSE IF SubSeq(text, 1, Len(original)) = original
    THEN replacement \o SubSeq(text, Len(original) + 1, Len(text))
    ELSE <<Head(text)>> \o ReplaceFirst(Tail(text), original, replacement)
RECURSIVE ReplaceAll(_, _, _)
ReplaceAll(text, original, replacement) ==
    IF Len(text) < Len(original) THEN text
    ELSE IF SubSeq(text, 1, Len(original)) = original
    THEN replacement
         \o ReplaceAll(SubSeq(text, Len(original) + 1, Len(text)), original, replacement)
    ELSE <<Head(text)>> \o ReplaceAll(Tail(text), original, replacement)

\* the dialog after replaceTypo(index, original, replacement), lines 226-227
Replaced(d, index, replacement) ==
    [d EXCEPT !.correctedText = ReplaceAll(d.correctedText, d.typos[index].word, replacement),
              !.typos[index].shown = FALSE]

\* a typo's replacement button: replaceTypo, updateText and the server's
\* updateCellWithCorrectedText
replaceTypo(index, replacement) ==
    /\ dialog.kind = "typo"
    /\ index \in 1..Len(dialog.typos)
    /\ dialog.typos[index].shown
    /\ Includes(dialog.typos[index].options, replacement)
    /\ LET d == Replaced(dialog, index, replacement)
           writes == updateCellWithCorrectedText(cache, d.correctedText)
       IN  /\ Len(d.correctedText) <= MaxTextLen
           /\ dialog' = d
           /\ cells' = Apply(cells, writes)
           /\ last' = [NoRun EXCEPT !.action = "replaceTypo", !.writes = writes]
    /\ UNCHANGED <<dictVars, tabs, apiKey, cache>>

\* a typo's 'Keep Original' button
keepOriginal(index) ==
    /\ dialog.kind = "typo"
    /\ index \in 1..Len(dialog.typos)
    /\ dialog.typos[index].shown
    /\ dialog' = [dialog EXCEPT !.typos[index].shown = FALSE]
    /\ last' = [NoRun EXCEPT !.action = "keepOriginal"]
    /\ UNCHANGED <<dictVars, tabs, apiKey, cells, cache>>

\* a typo's 'Add & Replace' button: nothing for a blank input, else the
\* server's addToCustomDictionary and replaceTypo with the trimmed input
addAndReplace(index, input) ==
    /\ dialog.kind = "typo"
    /\ index \in 1..Len(dialog.typos)
    /\ dialog.typos[index].shown
    /\ Len(getCustomDictionary(store)) < MaxDict
    /\ LET newWord == Trim(input)
           d == IF newWord # <<>> THEN Replaced(dialog, index, newWord) ELSE dialog
           writes == IF newWord # <<>>
                     THEN updateCellWithCorrectedText(cache, d.correctedText)
                     ELSE <<>>
       IN  /\ Len(d.correctedText) <= MaxTextLen
           /\ store' = IF newWord # <<>> THEN addToCustomDictionary(store, newWord) ELSE store
           /\ dialog' = d
           /\ cells' = Apply(cells, writes)
           /\ last' = [NoRun EXCEPT !.action = "addAndReplace", !.writes = writes]
    /\ UNCHANGED <<pc, call, ret, tabs, apiKey, cache>>

\* the grammar dialog's 'Accept Changes' button: the server's
\* updateCellWithImprovedGrammar, then the dialog closes
acceptChanges ==
    /\ dialog.kind = "grammar"
    /\ LET writes == updateCellWithImprovedGrammar(cache, dialog.improvedText)
       IN  /\ cells' = Apply(cells, writes)
           /\ last' = [NoRun EXCEPT !.action = "acceptChanges", !.writes = writes]
    /\ dialog' = NoDialog
    /\ UNCHANGED <<dictVars, tabs, apiKey, cache>>

\* google.script.host.close(): 'Done' and 'Cancel'
closeDialog ==
    /\ dialog.kind # "none"
    /\ dialog' = NoDialog
    /\ last' = [NoRun EXCEPT !.action = "closeDialog"]
    /\ UNCHANGED <<dictVars, tabs, apiKey, cells, cache>>

\* the dictionary manager's 'Add' button: nothing for a blank input
addWord(input) ==
    /\ dialog.kind = "dictionary"
    /\ Len(getCustomDictionary(store)) < MaxDict
    /\ LET newWord == Trim(input)
       IN  store' = IF newWord # <<>> THEN addToCustomDictionary(store, newWord) ELSE store
    /\ last' = [NoRun EXCEPT !.action = "addWord"]
    /\ UNCHANGED <<pc, call, ret, tabs, apiKey, cells, cache, dialog>>

\* the dictionary manager's delete control of the entry at index
deleteWord(index) ==
    /\ dialog.kind = "dictionary"
    /\ index \in 0..(Len(getCustomDictionary(store)) - 1)
    /\ store' = removeFromCustomDictionary(store, index)
    /\ last' = [NoRun EXCEPT !.action = "deleteWord"]
    /\ UNCHANGED <<pc, call, ret, tabs, apiKey, cells, cache, dialog>>

\* every replacement a button of the dialog may carry
Options == {the, ten, The, at, theatre}

-----------------------------------------------------------------------------
(* Two browser tabs of one user on the same spreadsheet. Both run the       *)
(* add-on against the same user cache; a dialog's server function and a     *)
(* write-back called through google.script.run each take several steps,     *)
(* and the steps of the two tabs interleave.                                *)

Tabs == {1, 2}

\* no write-back call under way
NoWriteBack ==
    [pc |-> "none", text |-> <<>>, range |-> NoRange, rangeA1 |-> NoEntry, closes |-> FALSE]

\* a tab with no dialog and no server call
IdleTab ==
    [pc |-> "idle", range |-> NoRange, dialog |-> NoDialog, wb |-> NoWriteBack, opened |-> 0]

\* the dialogs opened so far
Opened == tabs[1].opened + tabs[2].opened

\* the arguments the tabs' dialogs are opened with
RaceTypos == <<Typo(teh, <<the>>)>>
RaceImproved == the \o <<SP>> \o at

\* a spreadsheet with two cells to work on
RaceCells ==
    [t \in Targets |-> IF t = <<0, A1>> THEN text1 ELSE IF t = <<1, B2>> THEN teh ELSE <<>>]

\* showTypoSuggestions(originalText, typos, customDict, range) up to and
\* with showModalDialog, line 253
showTypoSuggestions(t, range) ==
    /\ tabs[t].pc = "idle"
    /\ tabs[t].dialog.kind = "none"
    /\ Opened < MaxOpened
    /\ Ready(range)
    /\ LET originalText == cells[<<range.sheet, range.a1>>]
           d == [NoDialog EXCEPT !.kind = "typo", !.originalText = originalText,
                                 !.correctedText = originalText,
                                 !.typos = TypoBlocks(RaceTypos, getCustomDictionary(store)),
                                 !.items = RaceTypos, !.range = range]
       IN  tabs' = [tabs EXCEPT ![t].dialog = d, ![t].range = range, ![t].pc = "putRangeA1",
                                ![t].opened = @ + 1]
    /\ last' = [NoRun EXCEPT !.action = "showTypoSuggestions"]
    /\ UNCHANGED <<dictVars, apiKey, cells, cache, dialog>>

\* showGrammarComparison(originalText, improvedText, range) up to and with
\* showModalDialog, line 411
showGrammarComparison(t, range) ==
    /\ tabs[t].pc = "idle"
    /\ tabs[t].dialog.kind = "none"
    /\ Opened < MaxOpened
    /\ Ready(range)
    /\ LET originalText == cells[<<range.sheet, range.a1>>]
           d == [NoDialog EXCEPT !.kind = "grammar", !.originalText = originalText,
                                 !.improvedText = RaceImproved, !.range = range]
       IN  tabs' = [tabs EXCEPT ![t].dialog = d, ![t].range = range, ![t].pc = "putRangeA1",
                                ![t].opened = @ + 1]
    /\ last' = [NoRun EXCEPT !.action = "showGrammarComparison"]
    /\ UNCHANGED <<dictVars, apiKey, cells, cache, dialog>>

\* lines 256 and 414: put('ACTIVE_RANGE_A1', range.getA1Notation())
putActiveRange(t) ==
    /\ tabs[t].pc = "putRangeA1"
    /\ cache' = [cache EXCEPT !.a1 = Entry(tabs[t].range.a1)]
    /\ tabs' = [tabs EXCEPT ![t].pc = "putSheetId"]
    /\ UNCHANGED <<dictVars, apiKey, cells, dialog, last>>

\* lines 257 and 415: put('ACTIVE_SHEET_ID', the sheet id as a string), the
\* last statement of the dialog's server function
putActiveSheetId(t) ==
    /\ tabs[t].pc = "putSheetId"
    /\ cache' = [cache EXCEPT !.sheet = Entry(SheetIdString(tabs[t].range.sheet))]
    /\ tabs' = [tabs EXCEPT ![t].pc = "idle"]
    /\ UNCHANGED <<dictVars, apiKey, cells, dialog, last>>

\* the call google.script.run sends for a dialog's text
WriteBackCall(d, text, closes) ==
    [pc |-> "getRangeA1", text |-> text, range |-> d.range, rangeA1 |-> NoEntry,
     closes |-> closes]

\* a replacement button of tab t's typo dialog: replaceTypo and updateText,
\* which sends updateCellWithCorrectedText(correctedText)
clickReplaceTypo(t, index, replacement) ==
    /\ tabs[t].dialog.kind = "typo"
    /\ tabs[t].wb.pc = "none"
    /\ index \in 1..Len(tabs[t].dialog.typos)
    /\ tabs[t].dialog.typos[index].shown
    /\ Includes(tabs[t].dialog.typos[index].options, replacement)
    /\ LET d == Replaced(tabs[t].dialog, index, replacement)
       IN  tabs' = [tabs EXCEPT ![t].dialog = d,
                                ![t].wb = WriteBackCall(d, d.correctedText, FALSE)]
    /\ last' = [NoRun EXCEPT !.action = "clickReplaceTypo"]
    /\ UNCHANGED <<dictVars, apiKey, cells, cache, dialog>>

\* 'Accept Changes' of tab t's grammar dialog: acceptChanges sends
\* updateCellWithImprovedGrammar(improvedText), whose success handler closes
\* the dialog
clickAcceptChanges(t) ==
    /\ tabs[t].dialog.kind = "grammar"
    /\ tabs[t].wb.pc = "none"
    /\ tabs' = [tabs EXCEPT ![t].wb =
                    WriteBackCall(tabs[t].dialog, tabs[t].dialog.improvedText, TRUE)]
    /\ last' = [NoRun EXCEPT !.action = "clickAcceptChanges"]
    /\ UNCHANGED <<dictVars, apiKey, cells, cache, dialog>>

\* 'Done' and 'Cancel' of tab t's dialog: google.script.host.close(); a
\* success handler of the closed dialog no longer runs
clickClose(t) ==
    /\ tabs[t].dialog.kind # "none"
    /\ tabs' = [tabs EXCEPT ![t].dialog = NoDialog, ![t].wb.closes = FALSE]
    /\ last' = [NoRun EXCEPT !.action = "clickClose"]
    /\ UNCHANGED <<dictVars, apiKey, cells, cache, dialog>>

\* lines 275 and 422: const rangeA1 = get('ACTIVE_RANGE_A1')
getActiveRange(t) ==
    /\ tabs[t].wb.pc = "getRangeA1"
    /\ tabs' = [tabs EXCEPT ![t].wb.rangeA1 = cache.a1, ![t].wb.pc = "getSheetId"]
    /\ UNCHANGED <<dictVars, apiKey, cells, cache, dialog, last>>

\* lines 276-284 and 423-431: const sheetId = get('ACTIVE_SHEET_ID') and the
\* rest of updateCellWithCorrectedText or updateCellWithImprovedGrammar;
\* last.range is the range the dialog that sent the text was opened for
getActiveSheetIdAndSetValue(t) ==
    /\ tabs[t].wb.pc = "getSheetId"
    /\ LET wb == tabs[t].wb
           ch == [a1 |-> wb.rangeA1, sheet |-> cache.sheet]
           writes == IF wb.closes
                     THEN updateCellWithImprovedGrammar(ch, wb.text)
                     ELSE updateCellWithCorrectedText(ch, wb.text)
       IN  /\ cells' = Apply(cells, writes)
           /\ tabs' = [tabs EXCEPT ![t].wb = NoWriteBack,
                                   ![t].dialog = IF wb.closes THEN NoDialog ELSE @]
           /\ last' = [NoRun EXCEPT !.action = "writeBack", !.writes = writes,
                                    !.range = wb.range]
    /\ UNCHANGED <<dictVars, apiKey, cache, dialog>>

RaceNext ==
    \/ \E t \in Tabs, range \in Ranges : showTypoSuggestions(t, range)
    \/ \E t \in Tabs, range \in Ranges : showGrammarComparison(t, range)
    \/ \E t \in Tabs : putActiveRange(t)
    \/ \E t \in Tabs : putActiveSheetId(t)
    \/ \E t \in Tabs, index \in 1..2, replacement \in Options :
          clickReplaceTypo(t, index, replacement)
    \/ \E t \in Tabs : clickAcceptChanges(t)
    \/ \E t \in Tabs : clickClose(t)
    \/ \E t \in Tabs : getActiveRange(t)
    \/ \E t \in Tabs : getActiveSheetIdAndSetValue(t)

Next ==
    \/ \E prm \in PromptResults : showApiKeyDialog(prm)
    \/ \E range \in Ranges : showTypoFixDialog(range)
    \/ \E range \in Ranges : showGrammarImproveDialog(range)
    \/ showDictionaryManager
    \/ \E index \in 1..2, replacement \in Options : replaceTypo(index, replacement)
    \/ \E index \in 1..2 : keepOriginal(index)
    \/ \E index \in 1..2, input \in WordInputs : addAndReplace(index, input)
    \/ acceptChanges
    \/ closeDialog
    \/ \E input \in WordInputs : addWord(input)
    \/ \E index \in 0..MaxDict : deleteWord(index)

Init ==
    /\ store = Absent
    /\ pc = [p \in Callers |-> "idle"]
    /\ call = [p \in Callers |-> NoCall]
    /\ ret = [p \in Callers |-> <<>>]
    /\ apiKey = Absent
    /\ cells = InitCells
    /\ cache = EmptyCache
    /\ dialog = NoDialog
    /\ tabs = [t \in Tabs |-> IdleTab]
    /\ last = NoRun

\* one user session: the menu actions and the dialogs' buttons, one at a time
Spec == Init /\ [][Next]_vars

\* the dictionary's server functions under concurrent callers
SpecDict == Init /\ [][DictNext]_vars

\* the state in which the two tabs start: a key is stored, two cells hold text
InitRace ==
    /\ store = Absent
    /\ pc = [p \in Callers |-> "idle"]
    /\ call = [p \in Callers |-> NoCall]
    /\ ret = [p \in Callers |-> <<>>]
    /\ apiKey = Stored(<<"k">>)
    /\ cells = RaceCells
    /\ cache = EmptyCache
    /\ dialog = NoDialog
    /\ tabs = [t \in Tabs |-> IdleTab]
    /\ last = NoRun

\* the dialogs and write-backs of two tabs, step by step
SpecRace == InitRace /\ [][RaceNext]_vars

-----------------------------------------------------------------------------
(* Claims about the custom dictionary, under SpecDict.                      *)

\* caller p takes a step
CallerStep(p) == <<pc[p], call[p], ret[p]>> # <<pc'[p], call'[p], ret'[p]>>

\* caller p returns from addToCustomDictionary in this step
AddReturns(p) == CallerStep(p) /\ pc'[p] = "done" /\ call'[p].op = "add"

\* caller p returns from removeFromCustomDictionary in this step
RemoveReturns(p) == CallerStep(p) /\ pc'[p] = "done" /\ call'[p].op = "remove"

\* the list a call works on is the stored list at the time the call read it
ReadsStored(p) ==
    (CallerStep(p) /\ call'[p] # call[p]) => call'[p].dict = getCustomDictionary(store)

NoDuplicates(arr) == \A i, j \in 1..Len(arr) : i # j => arr[i] # arr[j]

\* C1: in every state reachable by addToCustomDictionary and
\* removeFromCustomDictionary calls from an empty stored dictionary, calls
\* that read the stored list before another call wrote it back included, the
\* persisted dictionary holds no two equal entries.
C1_NoDuplicateEntries == NoDuplicates(getCustomDictionary(store))

\* C1 witness: one caller has persisted a word that the other caller, which
\* read the list before that write, is about to add too.
C1_Witness ==
    /\ pc[1] = "done" /\ call[1].op = "add"
    /\ pc[2] = "addRead" /\ call[2].word = call[1].word
    /\ ~Includes(call[2].dict, call[2].word)
    /\ Includes(getCustomDictionary(store), call[1].word)

\* C2 as stated: with D the list the call read and w the word handed in, the
\* call leaves the stored list alone and returns D when w is blank after
\* trimming or w is in D, and otherwise persists and returns D with w
\* appended.
C2_AddAsStated ==
    [][\A p \in Callers : AddReturns(p) =>
        LET w == call'[p].arg
            D == call'[p].dict
        IN  IF Trim(w) = <<>> \/ Includes(D, w)
            THEN store' = store /\ ret'[p] = D
            ELSE /\ getCustomDictionary(store') = ret'[p]
                 /\ ret'[p] = Append(D, w)]_vars

\* C2 (amended): with D the list the call read and t the word handed in
\* after trimming, the call leaves the stored list alone and returns D when
\* t is blank or t is in D; otherwise it persists and returns D with t as the
\* new last element: one entry more, the old entries in their old places.
C2_AddTrimmedWord ==
    [][\A p \in Callers :
        /\ ReadsStored(p)
        /\ AddReturns(p) =>
            LET t == Trim(call'[p].arg)
                D == call'[p].dict
                R == ret'[p]
            IN  IF t = <<>> \/ Includes(D, t)
                THEN store' = store /\ R = D
                ELSE /\ getCustomDictionary(store') = R
                     /\ Len(R) = Len(D) + 1
                     /\ \A k \in 1..Len(D) : R[k] = D[k]
                     /\ R[Len(R)] = t]_vars

\* C2 witness: a call handed a word with surrounding blanks has returned the
\* list it read with the trimmed word appended.
C2_Witness ==
    \E p \in Callers :
        /\ pc[p] = "done" /\ call[p].op = "add"
        /\ call[p].arg # Trim(call[p].arg)
        /\ Len(call[p].dict) > 0
        /\ ret[p] = Append(call[p].dict, Trim(call[p].arg))
        /\ getCustomDictionary(store) = ret[p]

\* C3: with D the list the call read, removeFromCustomDictionary(i) with
\* 0 <= i < |D| persists and returns D without its entry at position i (one
\* entry fewer, the others in order); for any other i it leaves the stored
\* list alone and returns D.
C3_RemoveAtIndex ==
    [][\A p \in Callers :
        /\ ReadsStored(p)
        /\ RemoveReturns(p) =>
            LET i == call'[p].index
                D == call'[p].dict
                R == ret'[p]
            IN  IF 0 <= i /\ i < Len(D)
                THEN /\ getCustomDictionary(store') = R
                     /\ Len(R) = Len(D) - 1
                     /\ \A k \in 1..Len(R) : R[k] = IF k <= i THEN D[k] ELSE D[k + 1]
                ELSE store' = store /\ R = D]_vars

\* C3 witness: a call has removed the first of two entries and the second is
\* what is stored.
C3_Witness ==
    \E p \in Callers :
        /\ pc[p] = "done" /\ call[p].op = "remove"
        /\ call[p].index = 0 /\ Len(call[p].dict) = 2
        /\ ret[p] = <<call[p].dict[2]>>
        /\ getCustomDictionary(store) = ret[p]

-----------------------------------------------------------------------------
(* Claims about the menu actions and the dialogs, under Spec.               *)

MenuActions == {"showTypoFixDialog", "showGrammarImproveDialog"}

\* the cell a dialog was opened for
Source(d) == <<d.range.sheet, d.range.a1>>

\* this step is a run of findTypos or improveGrammar: the menu action, with
\* a non-empty cell selected
ActionRuns ==
    /\ last'.action \in MenuActions
    /\ last'.range.has
    /\ cells[<<last'.range.sheet, last'.range.a1>>] # <<>>

\* this step sent the chat-completion request
CallsApi == last'.action \in MenuActions /\ last'.http > 0

\* C4: when the chat-completion call of a typo-fix or grammar-improve action
\* returns a status other than 200, the action shows one alert, which carries
\* the status code and the body, and stops: no dialog is opened, the pending
\* edit target is not stored, no cell changes, and the request is sent once.
C4_ApiErrorAborts ==
    [][(CallsApi /\ last'.status # 200) =>
        /\ last'.alerts = <<[prefix |-> "Error: ", msg |-> "API Error",
                             code |-> last'.status, body |-> last'.body]>>
        /\ last'.http = 1
        /\ dialog'.kind = "none" /\ dialog' = dialog
        /\ cache' = cache
        /\ cells' = cells /\ last'.writes = <<>>]_vars

\* C4 witness: a typo-fix run whose request was answered 401 has ended with
\* one alert, and the pending edit target of an earlier dialog is still cached.
C4_Witness ==
    /\ last.action = "showTypoFixDialog"
    /\ last.http = 1 /\ last.status = 401
    /\ Len(last.alerts) = 1
    /\ dialog.kind = "none"
    /\ cache.a1.present

\* global replacement, by position: the occurrences of word in text are
\* taken left to right without overlap
RECURSIVE SubstituteFrom(_, _, _, _)
SubstituteFrom(text, i, word, rep) ==
    IF i > Len(text) THEN <<>>
    ELSE IF i + Len(word) - 1 <= Len(text) /\ SubSeq(text, i, i + Len(word) - 1) = word
    THEN rep \o SubstituteFrom(text, i + Len(word), word, rep)
    ELSE <<text[i]>> \o SubstituteFrom(text, i + 1, word, rep)

\* the step accepts a replacement for one of the dialog's shown typos
Accepts ==
    /\ last'.action \in {"replaceTypo", "addAndReplace"}
    /\ dialog' # dialog

\* C5 as stated: while the typo dialog stays open no cell is written, and
\* when the user finalizes (the dialog closes) the cell holds the working
\* copy with all accepted substitutions.
C5_AsStated ==
    [][dialog.kind = "typo" =>
        /\ dialog'.kind = "typo" => cells' = cells
        /\ dialog'.kind = "none" => cells'[Source(dialog)] = dialog.correctedText]_vars

\* C5 (amended): the working copy starts as the cell's text; each accepted
\* replacement substitutes every occurrence of the typo word in the working
\* copy, and the Cell Writer is invoked at once, on each accepted
\* replacement, with the working copy holding all substitutions accepted
\* so far; "keep original" changes neither the working copy nor a cell, and
\* closing the dialog writes nothing.
C5_WriteOnEachReplacement ==
    [][/\ (last'.action = "showTypoFixDialog" /\ dialog'.kind = "typo") =>
            /\ dialog'.correctedText = cells[Source(dialog')]
            /\ cells' = cells
       /\ dialog.kind = "typo" =>
            /\ Accepts =>
                /\ \E i \in 1..Len(dialog.typos) :
                      /\ dialog.typos[i].shown /\ ~dialog'.typos[i].shown
                      /\ \E rep \in Options :
                            /\ last'.action = "replaceTypo"
                                  => Includes(dialog.typos[i].options, rep)
                            /\ dialog'.correctedText =
                                  SubstituteFrom(dialog.correctedText, 1,
                                                 dialog.typos[i].word, rep)
                /\ cells' = [cells EXCEPT ![Source(dialog)] = dialog'.correctedText]
            /\ ~Accepts =>
                /\ cells' = cells
                /\ dialog'.kind = "typo" => dialog'.correctedText = dialog.correctedText]_vars

\* C5 witness: both typos of a dialog were replaced, and the cell holds the
\* working copy with both substitutions while the dialog is still open.
C5_Witness ==
    /\ dialog.kind = "typo" /\ last.action = "replaceTypo"
    /\ Len(dialog.typos) = 2
    /\ ~dialog.typos[1].shown /\ ~dialog.typos[2].shown
    /\ dialog.originalText = text1
    /\ dialog.correctedText = the \o <<SP>> \o at \o <<SP>> \o the
    /\ cells[Source(dialog)] = dialog.correctedText

\* C6: the grammar dialog shows the reply trimmed; while it is open a cell
\* changes only by "accept", which writes exactly that improved text to the
\* cell the dialog was opened for; cancel leaves every cell as it was.
C6_GrammarAcceptOnly ==
    [][/\ (last'.action = "showGrammarImproveDialog" /\ dialog'.kind = "grammar") =>
            /\ dialog'.improvedText = Trim(last'.reply)
            /\ cells' = cells
       /\ dialog.kind = "grammar" =>
            IF last'.action = "acceptChanges"
            THEN cells' = [cells EXCEPT ![Source(dialog)] = dialog.improvedText]
            ELSE cells' = cells]_vars

\* C6 witness: "accept" has written the improved text, which is the reply
\* without its surrounding blanks, over the cell's earlier text.
C6_Witness ==
    /\ last.action = "acceptChanges"
    /\ last.writes = <<[sheet |-> 0, a1 |-> A1, text |-> the]>>
    /\ cells[<<0, A1>>] = the

\* C7: a typo-fix or grammar-improve action that runs with no API key, absent
\* or empty, sends no request, opens no dialog, stores no pending edit target
\* and writes no cell, and shows the key prompt; a request is only sent by
\* an action that started with a non-empty key stored.
C7_NoKeyNoRequest ==
    [][/\ (ActionRuns /\ (~apiKey.present \/ apiKey.value = <<>>)) =>
            /\ last'.http = 0
            /\ last'.prompt
            /\ dialog' = dialog /\ dialog'.kind = "none"
            /\ cache' = cache
            /\ cells' = cells /\ last'.writes = <<>>
       /\ CallsApi => (apiKey.present /\ apiKey.value # <<>>)]_vars

\* C7 witness: an action has run with an empty key stored: it showed the key
\* prompt, which the user cancelled, and sent no request.
C7_Witness ==
    /\ last.action = "showGrammarImproveDialog"
    /\ last.prompt /\ last.http = 0 /\ Len(last.alerts) = 1
    /\ apiKey.present /\ apiKey.value = <<>>
    /\ dialog.kind = "none"

\* the index of the brace that closes the object opened before index j, with
\* depth braces open; 0 when there is none
RECURSIVE MatchingClose(_, _, _)
MatchingClose(r, j, depth) ==
    IF j > Len(r) THEN 0
    ELSE IF r[j] = "LB" THEN MatchingClose(r, j + 1, depth + 1)
    ELSE IF r[j] = "RB"
    THEN IF depth = 1 THEN j ELSE MatchingClose(r, j + 1, depth - 1)
    ELSE MatchingClose(r, j + 1, depth)

\* the extraction as the claim states it: the fenced json block first, else
\* the first {...} object found by brace matching, else the whole reply
ExtractAsStated(r) ==
    LET fence == FenceMatch(r)
        opens == Indexes(r, {"LB"})
        close == IF opens = {} THEN 0 ELSE MatchingClose(r, Min(opens) + 1, 1)
    IN  IF fence.found THEN TrimWs(RemoveTokens(fence.text, {"FO", "FC"}))
        ELSE IF close # 0 THEN SubSeq(r, Min(opens), close)
        ELSE r

\* this step is a typo-detection run whose request was answered 200
TypoReplyArrives ==
    last'.action = "showTypoFixDialog" /\ last'.http > 0 /\ last'.status = 200

\* this step opens the suggestion dialog
OpensTypoDialog ==
    last'.action = "showTypoFixDialog" /\ dialog.kind = "none" /\ dialog'.kind = "typo"

\* C8 as stated: for every typo-detection reply answered 200, exactly one of
\* three happens: (a) the extracted text parses as JSON with a non-empty
\* typos list and the suggestion dialog is shown; (b) it parses without typos
\* entries and the only alert is "no typos found"; (c) it does not parse and
\* the only alert is an error alert. In (b) and (c) no dialog is opened and
\* no cell is written.
C8_AsStated ==
    [][TypoReplyArrives =>
        LET result == JsonParse(ExtractAsStated(last'.reply))
        IN  IF result.ok /\ result.hasTypos /\ Len(result.typos.items) > 0
            THEN dialog'.kind = "typo" /\ last'.alerts = <<>>
            ELSE /\ dialog'.kind = "none" /\ cells' = cells /\ last'.writes = <<>>
                 /\ Len(last'.alerts) = 1
                 /\ IF result.ok
                    THEN last'.alerts[1] =
                            [prefix |-> "", code |-> 0, body |-> "",
                             msg |-> "No typos found in the selected text."]
                    ELSE last'.alerts[1].prefix = "Error: "]_vars

\* the similarity rule as the claim states it
SimilarAsStated(a, b) ==
    /\ a # <<>> /\ b # <<>>
    /\ LowerChar(a[1]) = LowerChar(b[1])
    /\ Len(a) - Len(b) \in -2..2

\* C9 as stated: for every typo shown in the suggestion dialog, the displayed
\* list is the model's replacements in their order, followed by the custom
\* dictionary's words similar to the typo word, in dictionary order, and the
\* list holds no string twice.
C9_AsStated ==
    [][OpensTypoDialog =>
        \A i \in 1..Len(dialog'.typos) :
            LET item == dialog'.items[i]
                shown == dialog'.typos[i].options
                fromDict == SelectSeq(getCustomDictionary(store),
                               LAMBDA d : /\ SimilarAsStated(item.word, d)
                                          /\ ~Includes(item.replacements, d))
            IN  /\ shown = item.replacements \o fromDict
                /\ NoDuplicates(shown)]_vars

\* C10 as stated: every typo presented in the suggestion dialog has at least
\* one replacement option, and a typos entry without a replacements field is
\* taken as one with an empty list, not as a failure.
C10_AsStated ==
    [][/\ OpensTypoDialog =>
            \A i \in 1..Len(dialog'.typos) : dialog'.typos[i].options # <<>>
       /\ TypoReplyArrives =>
            LET result == JsonParse(ExtractJson(last'.reply))
            IN  (result.ok /\ ~NoTypos(result) /\ result.typos.isArray)
                  => \A k \in 1..Len(last'.alerts) : last'.alerts[k].prefix # "Error: "]_vars

-----------------------------------------------------------------------------
(* Claims about dialogs and write-backs of two tabs, under SpecRace.        *)

\* a write-back call returns in this step
WriteBackReturns == \E t \in Tabs : tabs[t].wb.pc = "getSheetId" /\ tabs'[t].wb.pc = "none"

\* C11 as stated: under any interleaving of dialog openings, each with its
\* two separate cache puts, and write-back calls, a write-back writes a text
\* only into the cell, sheet and address together, for which the dialog that
\* produced the text was opened; a write-back of an earlier dialog whose
\* target a newer dialog has overwritten changes no cell.
C11_AsStated ==
    [][WriteBackReturns =>
        \A k \in 1..Len(last'.writes) :
            /\ last'.range.has
            /\ last'.writes[k].sheet = last'.range.sheet
            /\ last'.writes[k].a1 = last'.range.a1]_vars

====
